---- MODULE Spec2Model ----
(***************************************************************************)
(* Model of the jinn-ai backend (server.js): the scheduled file queue, the *)
(* typing-indicator heartbeat, the AI round of the message_create handler   *)
(* with its conversation history, the terminal prompts of the socket, the   *)
(* /send command, and four single steps: the exec callback's choice of a    *)
(* response, the parse of the [SEND_FILE:path] directive, the handling of   *)
(* an AI response and the classification of an inbound message.             *)
(*                                                                          *)
(* The program is a single-threaded Node.js event loop.  Every action below *)
(* is one run-to-completion step of that loop: the synchronous code between *)
(* two suspension points (await, timer callback, process-exit callback).    *)
(***************************************************************************)
EXTENDS Integers, Sequences, FiniteSets, Bags, TLC

VARIABLES
    \* ---- scheduled file queue (part_001 lines 54-64)
    fileQueue,          \* let fileQueue = []         : sequence of paths
    queueInterval,      \* let queueInterval = null   : timer handle or NoTimer
    queueStatus,        \* let queueStatus = {...}
    queueTimers,        \* handles of the setInterval timers still armed
    deliveries,         \* bag of the paths whose sendNextQueuedFile call is
                        \* suspended in await sendWhatsAppMedia
    starts,             \* number of successful startFileQueue calls so far
    notice,             \* what the last scheduler step handed to
                        \* sendWhatsAppReply or io.emit, Silent if nothing
    retryDue,           \* history: paths re-inserted after a failure and not
                        \* popped by a timer tick since
    ticks,              \* history: [regular, n].  While regular, n is the
                        \* number of timer ticks since the last successful
                        \* startFileQueue; regular is lost for the rest of
                        \* that queue when a delivery fails or is still in
                        \* flight at a tick or at the start
    \* ---- AI rounds (part_001 lines 45-52, 159-191, 241-341, 643-793)
    isReady,            \* let isReady = false
    currentAI,          \* let currentAI = 'claude'
    conversationHistory,\* let conversationHistory = []
    typingInterval,     \* let typingInterval = null : timer handle or NoTimer
    typingTimers,       \* handles of the heartbeat timers still armed
    handlers,           \* message_create handlers suspended at an await
    msgs,               \* number of inbound messages that asked for an AI round
    reply,              \* what the last handler step handed to
                        \* sendWhatsAppReply or io.emit, Quiet if nothing
    presence,           \* what the last step did to the typing heartbeat:
                        \* "start" (immediate signal), "armed" (setInterval),
                        \* "tick" (periodic signal), "stopped" (clearInterval)
                        \* or "none"
    log,                \* history: every entry pushed since the last /clear
    \* ---- terminal prompts over the socket (part_001 lines 888-942)
    terminals,          \* one record per 'claude-message' received
    \* ---- the /send command (part_001 lines 549-585)
    sendRuns,           \* bag of the paths whose /send handler is suspended
                        \* in await sendWhatsAppMedia
    sendNote,           \* what the last /send step handed to
                        \* sendWhatsAppReply or io.emit
    \* ---- single runs of the pure steps
    execRun,            \* one call of the exec callback of sendToAI
    extraction,         \* one parse of an AI response for [SEND_FILE:...]
    routing,            \* one classification of an inbound self-chat message
    handling            \* one handling of an AI response: the file it names
                        \* is looked up and sent, the text is replied

queueVars == <<fileQueue, queueInterval, queueStatus, queueTimers, deliveries,
               starts, notice, retryDue, ticks>>
aiVars    == <<isReady, currentAI, conversationHistory, typingInterval,
               typingTimers, handlers, msgs, reply, presence, log>>
termVars  == <<terminals>>
sendVars  == <<sendRuns, sendNote>>
pureVars  == <<execRun, extraction, routing, handling>>
vars      == <<queueVars, aiVars, termVars, sendVars, pureVars>>

\* what an action of one component leaves alone
nonQueueVars == <<aiVars, termVars, sendVars, pureVars>>
nonAIVars    == <<queueVars, termVars, sendVars, pureVars>>
nonSendVars  == <<queueVars, aiVars, termVars, pureVars>>
nonTermVars  == <<queueVars, isReady, conversationHistory, typingInterval,
                  typingTimers, handlers, msgs, reply, presence, log,
                  sendVars, pureVars>>

-----------------------------------------------------------------------------
(* Bounds of the model *)

\* successful /queue commands explored
MaxStarts == 2
\* deliveries that may be in flight at once (a send outlasting the tick period)
MaxInFlight == 2
\* inbound AI messages explored when rounds may overlap
MaxMsgs == 2
\* inbound AI messages explored when rounds run one at a time
MaxSeqMsgs == 12
\* terminal prompts explored, and chunks of output per prompt
MaxPrompts == 1
MaxChunks == 2
\* longest stdout and stderr, in symbols, given to the exec callback
MaxStdout == 2
MaxStderr == 4
\* longest AI response, in symbols, given to the directive parse
MaxText == 7
MaxReply == 5
MaxBody == 3
MaxSends == 2

-----------------------------------------------------------------------------
(* Program constants *)

\* const MAX_HISTORY = 20
MAX_HISTORY == 20
\* null timer handle (queueInterval = null, typingInterval = null)
NoTimer == 0
\* intervalMs default of queueStatus and of /queue
DefaultIntervalMs == 60000

-----------------------------------------------------------------------------
(* The file system the /queue command sees.  A path is <<folder, name>>;    *)
(* path.basename is the name.  Folder "A" holds three regular files, "B"    *)
(* two, "E" is an empty directory, "F" is a regular file and "M" does not   *)
(* exist.                                                                   *)

Folders == {"A", "B", "E", "F", "M"}
NoFolder == "null"

existsSync(f) == f \in {"A", "B", "E", "F"}
isDirectory(f) == f \in {"A", "B", "E"}
basename(p) == p[2]
dirname(p) == p[1]

\* The orders in which the file system may list a folder's names: readdirSync
\* promises no order and the code does not sort.  Explored: the sorted order
\* and, for "A", one unsorted order.
Listings(f) == CASE f = "A" -> {<<1, 2, 3>>, <<2, 1, 3>>}
                 [] f = "B" -> {<<4, 5>>}
                 [] OTHER   -> {<<>>}

\* the names a folder holds
FilesOf(f) == UNION { {s[i] : i \in 1..Len(s)} : s \in Listings(f) }

\* fs.readdirSync(folder).filter(isFile).map(f => path.join(folder, f))
ReadDir(f) == { [i \in 1..Len(s) |-> <<f, s[i]>>] : s \in Listings(f) }

\* /queue <folder> [interval_seconds]: parseInt(match[2]) || 60, times 1000
IntervalsMs == {1000, DefaultIntervalMs}

Notice(k, a, b) == [kind |-> k, a |-> a, b |-> b]

\* values of the history variable ticks
Regular(n) == [regular |-> TRUE, n |-> n]
Irregular == [regular |-> FALSE, n |-> 0]
Silent == Notice("none", 0, 0)

-----------------------------------------------------------------------------
(* File queue *)

InitQueue ==
    /\ fileQueue = <<>>
    /\ queueInterval = NoTimer
    /\ queueStatus = [active |-> FALSE, folder |-> NoFolder,
                      intervalMs |-> DefaultIntervalMs,
                      totalFiles |-> 0, sentFiles |-> 0, sentList |-> <<>>]
    /\ queueTimers = {}
    /\ deliveries = EmptyBag
    /\ starts = 0
    /\ notice = Silent
    /\ retryDue = {}
    /\ ticks = Regular(0)

\* clearInterval(h): disarms the timer with handle h (no effect on null or on
\* a handle that is already cleared)
clearInterval(armed, h) == armed \ {h}

\* stopFileQueue that forgets clearInterval
stopFileQueue_KeepsTimer(fq, qs, qi, armed) ==
    [fq    |-> <<>>,
     qs    |-> [qs EXCEPT !.active = FALSE],
     qi    |-> NoTimer,
     armed |-> armed]

\* stopFileQueue that also resets the counts
stopFileQueue_ResetsCounts(fq, qs, qi, armed) ==
    [fq    |-> <<>>,
     qs    |-> [qs EXCEPT !.active = FALSE, !.sentFiles = 0, !.sentList = <<>>],
     qi    |-> NoTimer,
     armed |-> IF qi # NoTimer THEN clearInterval(armed, qi) ELSE armed]

\* function stopFileQueue()
stopFileQueue(fq, qs, qi, armed) ==
    [fq    |-> <<>>,
     qs    |-> [qs EXCEPT !.active = FALSE],
     qi    |-> NoTimer,
     armed |-> IF qi # NoTimer THEN clearInterval(armed, qi) ELSE armed]

\* sendNextQueuedFile that stops on the empty queue without the reply
sendNextQueuedFile_SilentCompletion(fq, qs, qi, armed) ==
    IF Len(fq) = 0
    THEN LET s == stopFileQueue(fq, qs, qi, armed)
         IN [fq |-> s.fq, qs |-> s.qs, qi |-> s.qi, armed |-> s.armed,
             popped |-> <<>>,
             said |-> <<Silent>>]
    ELSE [fq |-> Tail(fq), qs |-> qs, qi |-> qi, armed |-> armed,
          popped |-> <<Head(fq)>>,
          said |-> <<>>]

\* async function sendNextQueuedFile(), up to its first suspension point:
\* either the queue is empty (stop and announce completion) or the head is
\* shifted off and handed to sendWhatsAppMedia (popped).
sendNextQueuedFile(fq, qs, qi, armed) ==
    IF Len(fq) = 0
    THEN LET s == stopFileQueue(fq, qs, qi, armed)
         IN [fq |-> s.fq, qs |-> s.qs, qi |-> s.qi, armed |-> s.armed,
             popped |-> <<>>,
             said |-> <<Notice("complete", qs.totalFiles, 0)>>]
    ELSE [fq |-> Tail(fq), qs |-> qs, qi |-> qi, armed |-> armed,
          popped |-> <<Head(fq)>>,
          said |-> <<>>]

\* function startFileQueue(folderPath, intervalMs) with a listing `files`
startFileQueue(folder, intervalMs, files) ==
    LET armed == IF queueInterval # NoTimer
                 THEN clearInterval(queueTimers, queueInterval)
                 ELSE queueTimers
    IN IF Len(files) = 0
       THEN /\ queueTimers' = armed
            /\ notice' = Notice("nofiles", 0, 0)
            /\ UNCHANGED <<fileQueue, queueInterval, queueStatus, deliveries,
                           starts, retryDue, ticks>>
       ELSE LET qs == [active |-> TRUE, folder |-> folder,
                       intervalMs |-> intervalMs,
                       totalFiles |-> Len(files), sentFiles |-> 0,
                       sentList |-> <<>>]
                r  == sendNextQueuedFile(files, qs, queueInterval, armed)
                h  == starts + 1
            IN /\ starts < MaxStarts
               /\ BagCardinality(deliveries) < MaxInFlight
               /\ fileQueue' = r.fq
               /\ queueStatus' = r.qs
               /\ deliveries' = deliveries (+) SetToBag({r.popped[1]})
               /\ queueInterval' = h
               /\ queueTimers' = r.armed \cup {h}
               /\ starts' = h
               /\ notice' = Notice("queued", Len(files), intervalMs)
               /\ retryDue' = {}
               /\ ticks' = IF deliveries = EmptyBag THEN Regular(0)
                                                      ELSE Irregular

\* message_create handler, text "/queue <folder> [seconds]"
QueueCmd(folder, intervalMs) ==
    /\ IF ~existsSync(folder)
       THEN /\ notice' = Notice("notfound", 0, 0)
            /\ UNCHANGED <<fileQueue, queueInterval, queueStatus, queueTimers,
                           deliveries, starts, retryDue, ticks>>
       ELSE IF ~isDirectory(folder)
       THEN /\ notice' = Notice("notdir", 0, 0)
            /\ UNCHANGED <<fileQueue, queueInterval, queueStatus, queueTimers,
                           deliveries, starts, retryDue, ticks>>
       ELSE \E files \in ReadDir(folder) :
                startFileQueue(folder, intervalMs, files)
    /\ UNCHANGED nonQueueVars

\* the setInterval callback of startFileQueue fires
QueueTick(t) ==
    /\ t \in queueTimers
    /\ fileQueue # <<>> => BagCardinality(deliveries) < MaxInFlight
    /\ ticks' = IF ticks.regular /\ deliveries = EmptyBag
                THEN Regular(ticks.n + 1)
                ELSE Irregular
    /\ LET r == sendNextQueuedFile(fileQueue, queueStatus, queueInterval,
                                   queueTimers)
       IN /\ fileQueue' = r.fq
          /\ queueStatus' = r.qs
          /\ queueInterval' = r.qi
          /\ queueTimers' = r.armed
          /\ IF r.popped = <<>>
             THEN /\ notice' = r.said[1]
                  /\ UNCHANGED <<deliveries, retryDue>>
             ELSE /\ deliveries' = deliveries (+) SetToBag({r.popped[1]})
                  /\ retryDue' = {}
                  /\ notice' = Silent
    /\ UNCHANGED <<starts, nonQueueVars>>

\* a success branch that forgets sentFiles++
afterSent_NoCount(qs, p) ==
    [qs EXCEPT !.sentList = Append(@, basename(p))]

\* sendNextQueuedFile resumes after await sendWhatsAppMedia returned true
afterSent(qs, p) ==
    [qs EXCEPT !.sentFiles = @ + 1,
               !.sentList = Append(@, basename(p))]

DeliverOk(p) ==
    /\ BagIn(p, deliveries)
    /\ deliveries' = deliveries (-) SetToBag({p})
    /\ queueStatus' = afterSent(queueStatus, p)
    /\ notice' = Notice("progress", queueStatus'.sentFiles, queueStatus'.totalFiles)
    /\ UNCHANGED <<fileQueue, queueInterval, queueTimers, starts, retryDue,
                   ticks, nonQueueVars>>

\* sendNextQueuedFile resumes after await sendWhatsAppMedia returned false
afterFailed(fq, p) == <<p>> \o fq

DeliverFail(p) ==
    /\ BagIn(p, deliveries)
    /\ deliveries' = deliveries (-) SetToBag({p})
    /\ fileQueue' = afterFailed(fileQueue, p)
    /\ retryDue' = retryDue \cup {p}
    /\ notice' = Silent
    /\ ticks' = Irregular
    /\ UNCHANGED <<queueInterval, queueStatus, queueTimers, starts, nonQueueVars>>

\* message_create handler, text "/queue-stop"
QueueStopCmd ==
    /\ IF ~queueStatus.active
       THEN /\ notice' = Notice("nostop", 0, 0)
            /\ UNCHANGED <<fileQueue, queueInterval, queueStatus, queueTimers,
                           retryDue>>
       ELSE LET s == stopFileQueue(fileQueue, queueStatus, queueInterval,
                                   queueTimers)
            IN /\ fileQueue' = s.fq
               /\ queueStatus' = s.qs
               /\ queueInterval' = s.qi
               /\ queueTimers' = s.armed
               /\ retryDue' = {}
               /\ notice' = Notice("stopped", queueStatus.sentFiles,
                                   queueStatus.totalFiles)
    /\ UNCHANGED <<deliveries, starts, ticks, nonQueueVars>>

\* getQueueStatus that counts the file in flight as remaining
getQueueStatus_CountsPopped ==
    [active |-> queueStatus.active, folder |-> queueStatus.folder,
     intervalMs |-> queueStatus.intervalMs,
     totalFiles |-> queueStatus.totalFiles,
     sentFiles |-> queueStatus.sentFiles, sentList |-> queueStatus.sentList,
     remaining |-> Len(fileQueue) + BagCardinality(deliveries),
     remainingFiles |-> [i \in 1..Len(fileQueue) |-> basename(fileQueue[i])]]

\* function getQueueStatus()
getQueueStatus ==
    [active |-> queueStatus.active, folder |-> queueStatus.folder,
     intervalMs |-> queueStatus.intervalMs,
     totalFiles |-> queueStatus.totalFiles,
     sentFiles |-> queueStatus.sentFiles, sentList |-> queueStatus.sentList,
     remaining |-> Len(fileQueue),
     remainingFiles |-> [i \in 1..Len(fileQueue) |-> basename(fileQueue[i])]]

\* message_create handler, text "/queue-status"
QueueStatusCmd ==
    /\ LET status == getQueueStatus
       IN notice' =
            IF ~status.active /\ status.totalFiles = 0
            THEN Notice("status-none", 0, 0)
            ELSE IF status.active
            THEN Notice("status-active", status.sentFiles, status.remaining)
            ELSE Notice("status-finished", status.sentFiles, 0)
    /\ UNCHANGED <<fileQueue, queueInterval, queueStatus, queueTimers,
                   deliveries, starts, retryDue, ticks, nonQueueVars>>

-----------------------------------------------------------------------------
(* AI rounds *)

Providers == {"claude", "qwen"}
Entry(role, id) == [role |-> role, content |-> id]
\* cause: how the backend process of the round ended, "none" when the reply
\* does not end a round
Reply(k, id, p) == [kind |-> k, id |-> id, provider |-> p, cause |-> "none"]
Quiet == Reply("none", 0, "none")

InitAI ==
    /\ isReady = FALSE
    /\ currentAI = "claude"
    /\ conversationHistory = <<>>
    /\ typingInterval = NoTimer
    /\ typingTimers = {}
    /\ handlers = {}
    /\ msgs = 0
    /\ reply = Quiet
    /\ presence = "none"
    /\ log = <<>>

\* client.on('ready') / client.on('disconnected')
ClientReady ==
    /\ ~isReady
    /\ isReady' = TRUE
    /\ reply' = Quiet
    /\ presence' = "none"
    /\ UNCHANGED <<currentAI, conversationHistory, typingInterval, typingTimers,
                   handlers, msgs, log, nonAIVars>>

ClientDisconnected ==
    /\ isReady
    /\ isReady' = FALSE
    /\ reply' = Quiet
    /\ presence' = "none"
    /\ UNCHANGED <<currentAI, conversationHistory, typingInterval, typingTimers,
                   handlers, msgs, log, nonAIVars>>

\* conversationHistory.slice(-MAX_HISTORY) when longer than MAX_HISTORY
trimHistory(h) ==
    IF Len(h) > MAX_HISTORY
    THEN SubSeq(h, Len(h) - MAX_HISTORY + 1, Len(h))
    ELSE h

\* The parts a prompt is made of, in order: the fixed system instructions,
\* the two fixed headings, one line per history entry and the prompt text.
\* The content of a line or of the text is the id of the message it carries.
Part(tag, id) == [tag |-> tag, content |-> id]
systemInstructions == Part("system", 0)
PreviousConversation == Part("Previous conversation:", 0)
CurrentMessage == Part("Current message:", 0)

\* `${msg.role === 'user' ? 'User' : 'Assistant'}: ${msg.content}\n`
Line(msg) == Part(IF msg.role = "user" THEN "User" ELSE "Assistant",
                  msg.content)

\* a prompt that serialises the whole history, the entry of the current
\* message included
fullPrompt_WholeHistory(history, prompt) ==
    <<systemInstructions>>
       \o (IF Len(history) > 1
           THEN <<PreviousConversation>>
                  \o [i \in 1..Len(history) |-> Line(history[i])]
                  \o <<CurrentMessage, Part("prompt", prompt)>>
           ELSE <<Part("prompt", prompt)>>)

\* let fullPrompt = systemInstructions; ... : history is the conversation
\* history after the push of the current message and before the trim
fullPrompt(history, prompt) ==
    <<systemInstructions>>
       \o (IF Len(history) > 1
           THEN <<PreviousConversation>>
                  \o [i \in 1..(Len(history) - 1) |-> Line(history[i])]
                  \o <<CurrentMessage, Part("prompt", prompt)>>
           ELSE <<Part("prompt", prompt)>>)

\* a sendToAI that records the prompt in the history on either backend
sendToAI_AlwaysRecords(h, typing) ==
    /\ conversationHistory' =
          trimHistory(Append(conversationHistory, Entry("user", h.id)))
    /\ log' = Append(log, Entry("user", h.id))
    /\ handlers' = (handlers \ {h}) \cup
          {[h EXCEPT !.pc = "ai", !.provider = currentAI, !.typing = typing,
                     !.prompt = <<Part("prompt", h.id)>>]}

\* sendToAI(prompt, provider = currentAI) up to the exec / spawn call: on
\* claude the prompt is pushed as a user entry, the full prompt is built and
\* the history trimmed; on qwen the history is not touched and the prompt is
\* passed as it is.  h is the calling handler, typing tells whether its
\* startTyping armed the heartbeat.
sendToAI(h, typing) ==
    /\ IF currentAI = "claude"
       THEN /\ conversationHistory' =
                  trimHistory(Append(conversationHistory, Entry("user", h.id)))
            /\ log' = Append(log, Entry("user", h.id))
       ELSE UNCHANGED <<conversationHistory, log>>
    /\ handlers' = (handlers \ {h}) \cup
          {[h EXCEPT
              !.pc = "ai", !.provider = currentAI, !.typing = typing,
              !.prompt =
                 IF currentAI = "claude"
                 THEN fullPrompt(Append(conversationHistory,
                                        Entry("user", h.id)), h.id)
                 ELSE <<Part("prompt", h.id)>>]}

\* message_create handler, free-form text ("text") or a message with media
\* ("media"): announces the round and calls startTyping, which returns at
\* once when the client is not ready.  limit bounds the messages explored;
\* solo restricts the arrivals to moments when no other round is in flight.
ReceivePrompt(kind, limit, solo) ==
    /\ msgs < limit
    /\ solo => handlers = {}
    /\ msgs' = msgs + 1
    /\ LET h == [id |-> msgs + 1, kind |-> kind, pc |-> "getChat",
                 provider |-> "none", typing |-> FALSE, prompt |-> <<>>]
       IN IF isReady
          THEN /\ handlers' = handlers \cup {h}
               /\ UNCHANGED <<conversationHistory, log>>
          ELSE sendToAI(h, FALSE)
    /\ reply' = Reply("processing", msgs + 1, currentAI)
    /\ presence' = "none"
    /\ UNCHANGED <<isReady, currentAI, typingInterval, typingTimers, nonAIVars>>

\* startTyping resumes after await client.getChatById: on success it calls
\* chat.sendStateTyping (the immediate signal), on failure it returns and the
\* handler goes on to sendToAI
GetChatDone(h, ok) ==
    /\ h \in handlers
    /\ h.pc = "getChat"
    /\ IF ok
       THEN /\ handlers' = (handlers \ {h}) \cup {[h EXCEPT !.pc = "sendState"]}
            /\ presence' = "start"
            /\ UNCHANGED <<conversationHistory, log>>
       ELSE /\ sendToAI(h, FALSE)
            /\ presence' = "none"
    /\ reply' = Quiet
    /\ UNCHANGED <<isReady, currentAI, typingInterval, typingTimers, msgs, nonAIVars>>

\* typingInterval = setInterval(...): arms a new timer (handle id) and
\* overwrites the stored handle
armTyping(id) ==
    /\ typingInterval' = id
    /\ typingTimers' = typingTimers \cup {id}

\* startTyping resumes after await chat.sendStateTyping(): on success it arms
\* the 5 s timer; either way the handler goes on to sendToAI
SendStateDone(h, ok) ==
    /\ h \in handlers
    /\ h.pc = "sendState"
    /\ IF ok
       THEN /\ armTyping(h.id)
            /\ sendToAI(h, TRUE)
            /\ presence' = "armed"
       ELSE /\ sendToAI(h, FALSE)
            /\ presence' = "none"
            /\ UNCHANGED <<typingInterval, typingTimers>>
    /\ reply' = Quiet
    /\ UNCHANGED <<isReady, currentAI, msgs, nonAIVars>>

\* the setInterval callback of startTyping fires: chat.sendStateTyping()
TypingTick(t) ==
    /\ t \in typingTimers
    /\ presence' = "tick"
    /\ reply' = Quiet
    /\ UNCHANGED <<isReady, currentAI, conversationHistory, typingInterval,
                   typingTimers, handlers, msgs, log,
                   nonAIVars>>

\* stopTyping that drops the handle without clearInterval
stopTyping_Forgets ==
    /\ typingInterval' = NoTimer
    /\ presence' = "none"
    /\ UNCHANGED typingTimers

\* function stopTyping()
stopTyping ==
    IF typingInterval # NoTimer
    THEN /\ typingTimers' = clearInterval(typingTimers, typingInterval)
         /\ typingInterval' = NoTimer
         /\ presence' = "stopped"
    ELSE /\ presence' = "none"
         /\ UNCHANGED <<typingInterval, typingTimers>>

\* how the backend process of a round ends: it ran and exited ("close") or
\* it could not be started ("error": the exec callback is called with an
\* error and empty outputs, the spawned child emits 'error')
Outcomes == {"close", "error"}

\* The backend of round h ends.  claude: the exec callback builds a response
\* from whatever it is given (the error included), pushes it as an assistant
\* entry and resolves.  qwen: 'close' resolves, 'error' rejects.  The handler
\* then runs stopTyping and replies (try) or reports the error (catch).
AIDone(h, outcome) ==
    /\ h \in handlers
    /\ h.pc = "ai"
    /\ IF h.provider = "claude"
       THEN /\ conversationHistory' =
                  Append(conversationHistory, Entry("assistant", h.id))
            /\ log' = Append(log, Entry("assistant", h.id))
       ELSE UNCHANGED <<conversationHistory, log>>
    /\ stopTyping
    /\ handlers' = handlers \ {h}
    /\ reply' = [Reply(IF h.provider = "qwen" /\ outcome = "error"
                       THEN "error" ELSE "response",
                       h.id, currentAI)
                 EXCEPT !.cause = outcome]
    /\ UNCHANGED <<isReady, currentAI, msgs, nonAIVars>>

\* message_create handler, text "/claude" or "/qwen"
SwitchCmd(p) ==
    /\ currentAI' = p
    /\ reply' = Reply("switched", 0, p)
    /\ presence' = "none"
    /\ UNCHANGED <<isReady, conversationHistory, typingInterval, typingTimers,
                   handlers, msgs, log, nonAIVars>>

\* message_create handler, text "/clear"
ClearCmd ==
    /\ conversationHistory' = <<>>
    /\ log' = <<>>
    /\ reply' = Reply("cleared", 0, currentAI)
    /\ presence' = "none"
    /\ UNCHANGED <<isReady, currentAI, typingInterval, typingTimers, handlers,
                   msgs, nonAIVars>>

\* message_create handler, text "/status"
StatusCmd ==
    /\ reply' = Reply("status", Len(conversationHistory), currentAI)
    /\ presence' = "none"
    /\ UNCHANGED <<isReady, currentAI, conversationHistory, typingInterval,
                   typingTimers, handlers, msgs, log,
                   nonAIVars>>

-----------------------------------------------------------------------------
(* Terminal prompts: socket.on('claude-message').  Each prompt received is  *)
(* one record of terminals: the branch taken, where its process stands, the *)
(* output the handler was given (arrived) and the events it emitted on the  *)
(* socket (emitted), both in order.                                         *)

\* the error argument of an exec callback: null, or an Error with a message
NoError == "null"
Errors == {NoError, "spawn ENOENT"}

ChunkTexts == {"c1", "c2"}
Streams == {"stdout", "stderr"}
SpawnErrorMessage == "spawn ENOENT"

\* socket.emit('claude-stream', { text, done: false })
chunkSignal(text) == [event |-> "claude-stream", text |-> text, done |-> FALSE]

\* a final signal that is not marked done
doneSignal_NotDone == [event |-> "claude-stream", text |-> "", done |-> FALSE]

\* socket.emit('claude-stream', { text: '', done: true })
doneSignal == [event |-> "claude-stream", text |-> "", done |-> TRUE]

\* an error sent as a chunk
errorSignal_AsChunk(message) == chunkSignal(message)

\* socket.emit('claude-error', err.message)
errorSignal(message) == [event |-> "claude-error", message |-> message]

InitTerm == terminals = <<>>

\* The handler runs for a new prompt.  It takes the exec branch on claude and
\* the spawn branch otherwise; an exception thrown inside the try block
\* (message.replace on a payload that is not a string, spawn rejecting its
\* arguments) is caught and reported with claude-error.
TerminalPrompt(throws) ==
    /\ Len(terminals) < MaxPrompts
    /\ terminals' = Append(terminals,
           [branch  |-> IF currentAI = "claude" THEN "exec" ELSE "spawn",
            pc      |-> IF throws THEN "thrown" ELSE "running",
            failed  |-> FALSE,
            arrived |-> <<>>,
            emitted |-> IF throws THEN <<errorSignal("thrown")>> ELSE <<>>])
    /\ UNCHANGED <<queueVars, aiVars, sendVars, pureVars>>

\* ai.stdout.on('data') / ai.stderr.on('data') of the spawn branch
SpawnData(i, stream, text) ==
    /\ terminals[i].branch = "spawn"
    /\ terminals[i].pc = "running"
    /\ Len(terminals[i].arrived) < MaxChunks
    /\ terminals' = [terminals EXCEPT
           ![i].arrived = Append(@, [stream |-> stream, text |-> text]),
           ![i].emitted = Append(@, chunkSignal(text))]
    /\ UNCHANGED <<queueVars, aiVars, sendVars, pureVars>>

\* ai.on('error'): the process could not be started
SpawnError(i) ==
    /\ terminals[i].branch = "spawn"
    /\ terminals[i].pc = "running"
    /\ terminals[i].arrived = <<>>
    /\ terminals' = [terminals EXCEPT
           ![i].pc = "errored",
           ![i].failed = TRUE,
           ![i].emitted = Append(@, errorSignal(SpawnErrorMessage))]
    /\ UNCHANGED <<queueVars, aiVars, sendVars, pureVars>>

\* ai.on('close'): the process has exited and its streams are closed.  After
\* a failed start the event may or may not follow the 'error' event.
SpawnClose(i) ==
    /\ terminals[i].branch = "spawn"
    /\ terminals[i].pc \in {"running", "errored"}
    /\ terminals' = [terminals EXCEPT
           ![i].pc = "closed",
           ![i].emitted = Append(@, doneSignal)]
    /\ UNCHANGED <<queueVars, aiVars, sendVars, pureVars>>

\* the exec callback of the exec branch: (error, stdout, stderr), "" for an
\* empty output
ExecDone(i, error, stdout, stderr) ==
    /\ terminals[i].branch = "exec"
    /\ terminals[i].pc = "running"
    /\ error # NoError => (stdout = "" /\ stderr = "")
    /\ LET out == IF stdout # "" THEN <<[stream |-> "stdout", text |-> stdout]>>
                                 ELSE <<>>
           err == IF stderr # "" THEN <<[stream |-> "stderr", text |-> stderr]>>
                                 ELSE <<>>
       IN terminals' = [terminals EXCEPT
              ![i].pc = "closed",
              ![i].failed = (error # NoError),
              ![i].arrived = out \o err,
              ![i].emitted =
                  (IF stdout # "" THEN <<chunkSignal(stdout)>> ELSE <<>>) \o
                  (IF stderr # "" THEN <<chunkSignal(stderr)>> ELSE <<>>) \o
                  <<doneSignal>>]
    /\ UNCHANGED <<queueVars, aiVars, sendVars, pureVars>>

-----------------------------------------------------------------------------
(* Strings.  A string is a sequence of symbols; Sp is a whitespace          *)
(* character, every other symbol a run of non-whitespace characters.        *)

Sp == " "

Strings(alphabet, n) == UNION { [1..k -> alphabet] : k \in 0..n }

RECURSIVE trimStart(_)
trimStart(s) == IF s # <<>> /\ Head(s) = Sp THEN trimStart(Tail(s)) ELSE s

RECURSIVE trimEnd(_)
trimEnd(s) ==
    IF s # <<>> /\ s[Len(s)] = Sp THEN trimEnd(SubSeq(s, 1, Len(s) - 1)) ELSE s

\* String.prototype.trim
trim(s) == trimEnd(trimStart(s))

\* String.prototype.includes, for a one-symbol needle
includes(s, sym) == \E i \in 1..Len(s) : s[i] = sym

-----------------------------------------------------------------------------
(* The exec callback of sendToAI (claude): (error, stdout, stderr) to the   *)
(* response text.                                                           *)

\* the symbols that begin with https://
Urls == {"https://a", "https://b"}
StdoutSymbols == {Sp, "x"}
StderrSymbols == {Sp, "x", "authorize", "login"} \cup Urls

\* stderr.match(/https:\/\/[^\s\]]+/)?.[0]: from the first https:// up to the
\* next whitespace; <<>> stands for undefined
matchUrl(s) ==
    IF \E i \in 1..Len(s) : s[i] \in Urls
    THEN LET i == CHOOSE k \in 1..Len(s) :
                     s[k] \in Urls /\ \A j \in 1..(k - 1) : s[j] \notin Urls
             j == CHOOSE k \in i..Len(s) :
                     /\ \A l \in i..k : s[l] # Sp
                     /\ k = Len(s) \/ s[k + 1] = Sp
         IN SubSeq(s, i, j)
    ELSE <<>>

\* an exec callback that looks at stderr before stdout
ExecResponse_StderrFirst(error, stdout, stderr) ==
    IF trim(stderr) # <<>> THEN <<"Claude: ">> \o trim(stderr)
    ELSE IF trim(stdout) # <<>> THEN trim(stdout)
    ELSE IF error # NoError THEN <<"Claude error: ", error>>
    ELSE <<"No response from Claude">>

\* the body of the exec callback up to the response
ExecResponse(error, stdout, stderr) ==
    IF stdout # <<>> /\ trim(stdout) # <<>>
    THEN trim(stdout)
    ELSE IF stderr # <<>> /\ (includes(stderr, "authorize")
                              \/ includes(stderr, "login"))
    THEN LET authUrl == matchUrl(stderr)
         IN <<"Please authorize Claude first: ">> \o
               (IF authUrl # <<>> THEN authUrl
                                 ELSE <<"Check terminal for auth URL">>)
    ELSE IF stderr # <<>> /\ trim(stderr) # <<>>
    THEN <<"Claude: ">> \o trim(stderr)
    ELSE IF error # NoError
    THEN <<"Claude error: ", error>>
    ELSE <<"No response from Claude">>

ExecRun(error, stdout, stderr) ==
    [error |-> error, stdout |-> stdout, stderr |-> stderr,
     response |-> <<>>, done |-> FALSE]

-----------------------------------------------------------------------------
(* The [SEND_FILE:path] directive in an AI response (message_create         *)
(* handler).  Open stands for the characters "[SEND_FILE:", Close for "]".  *)

Open == "[SEND_FILE:"
Close == "]"
TextSymbols == {Open, Close, Sp, "a"}

\* index of the first "]" after position i, 0 when there is none
closeAfter(s, i) ==
    IF \E k \in (i + 1)..Len(s) : s[k] = Close
    THEN CHOOSE k \in (i + 1)..Len(s) :
             s[k] = Close /\ \A j \in (i + 1)..(k - 1) : s[j] # Close
    ELSE 0

\* /\[SEND_FILE:([^\]]+)\]/ matches at position i: the opening characters,
\* one or more characters other than "]", then "]"
directiveAt(s, i) == s[i] = Open /\ closeAfter(s, i) >= i + 2

hasDirective(s) == \E i \in 1..Len(s) : directiveAt(s, i)

\* where the leftmost match starts
firstDirective(s) ==
    CHOOSE i \in 1..Len(s) :
        directiveAt(s, i) /\ \A j \in 1..(i - 1) : ~directiveAt(s, j)

\* aiResponse.match(/\[SEND_FILE:([^\]]+)\]/)[1]
sendFileMatch(s) ==
    LET m == firstDirective(s)
    IN SubSeq(s, m + 1, closeAfter(s, m) - 1)

\* start of the whitespace run that ends just before position m
wsStart(s, m) ==
    CHOOSE q \in 1..m :
        /\ \A j \in q..(m - 1) : s[j] = Sp
        /\ q = 1 \/ s[q - 1] # Sp

\* end of the whitespace run that starts just after position k
wsEnd(s, k) ==
    CHOOSE e \in k..Len(s) :
        /\ \A j \in (k + 1)..e : s[j] = Sp
        /\ e = Len(s) \/ s[e + 1] # Sp

\* a replace without the g flag: only the first tag is removed
removeTags_FirstOnly(s) ==
    IF ~hasDirective(s) THEN s
    ELSE LET m == firstDirective(s)
             k == closeAfter(s, m)
         IN SubSeq(s, 1, wsStart(s, m) - 1) \o <<Sp>> \o
            SubSeq(s, wsEnd(s, k) + 1, Len(s))

\* aiResponse.replace(/\s*\[SEND_FILE:[^\]]+\]\s*/g, ' ')
RECURSIVE removeTags(_)
removeTags(s) ==
    IF ~hasDirective(s) THEN s
    ELSE LET m == firstDirective(s)
             k == closeAfter(s, m)
         IN SubSeq(s, 1, wsStart(s, m) - 1) \o <<Sp>> \o
            removeTags(SubSeq(s, wsEnd(s, k) + 1, Len(s)))

\* the directive branch of the handler up to cleanResponse
parseDirective(aiResponse) ==
    IF hasDirective(aiResponse)
    THEN [found |-> TRUE,
          filePath |-> trim(sendFileMatch(aiResponse)),
          cleanResponse |-> trim(removeTags(aiResponse))]
    ELSE [found |-> FALSE, filePath |-> <<>>, cleanResponse |-> aiResponse]

Extraction(aiResponse) ==
    [aiResponse |-> aiResponse, found |-> FALSE, filePath |-> <<>>,
     cleanResponse |-> <<>>, done |-> FALSE]

\* the handler parses one AI response
ParseDirective ==
    /\ ~extraction.done
    /\ LET r == parseDirective(extraction.aiResponse)
       IN extraction' = [extraction EXCEPT !.found = r.found,
                                           !.filePath = r.filePath,
                                           !.cleanResponse = r.cleanResponse,
                                           !.done = TRUE]
    /\ UNCHANGED <<queueVars, aiVars, termVars, sendVars, execRun, routing,
                   handling>>

-----------------------------------------------------------------------------
(* What the handler does with an AI response (part_001 lines 658-715): the  *)
(* [SEND_FILE:path] directive or, without one, a path found by the legacy   *)
(* patterns; the look-up of the file; the media send and the text reply.    *)
(* Symbols of a response: the directive's opening and closing characters, a *)
(* whitespace character, the word "saved", two complete paths and "AM.png", *)
(* the end of a macOS screenshot name.  No symbol holds a line break.       *)

ReplySymbols == {Open, Close, Sp, "saved", "/tmp/s.png", "/Users/r.pdf",
                 "AM.png"}
NNBSP == "U+202F"
NotFoundPrefix == "File not found: "
BlankLine == "\n\n"

\* symbols made of characters of [\/\w\-\.\s] only
InClass == {Sp, "a", "saved", "/tmp/s.png", "/Users/r.pdf", "AM.png"}
\* symbols holding one of saved|screenshot|image|file, in any letter case
Keywords == {"saved", Open}
\* symbols whose last character is one of [:\s]
Separators == {Sp, Open}
\* symbols starting with "/", with "/Users/"
PathStarts == {"/tmp/s.png", "/Users/r.pdf"}
UsersStarts == {"/Users/r.pdf"}
\* symbols ending with .png|jpg|jpeg|gif|webp, and with one of those or
\* .pdf|csv|txt|doc|docx
ImageEnds == {"/tmp/s.png", "AM.png"}
FileEnds == ImageEnds \cup {"/Users/r.pdf"}

\* where a run of [\/\w\-\.\s] characters that starts at symbol j can end
\* with one of the extensions
spanEnds(s, j, ends) ==
    { k \in j..Len(s) : s[k] \in ends /\ \A m \in j..k : s[m] \in InClass }

Least(S) == CHOOSE m \in S : \A n \in S : m <= n
Greatest(S) == CHOOSE m \in S : \A n \in S : m >= n

\* the group of a pattern that can start at the symbols of begins: the
\* leftmost start, the longest run (the quantifier is greedy); <<>> when the
\* pattern does not match
group(s, begins, ends) ==
    IF begins = {} THEN <<>>
    ELSE SubSeq(s, Least(begins), Greatest(spanEnds(s, Least(begins), ends)))

\* /(?:saved|screenshot|image|file).*?[:\s]+(\/[\/\w\-\.\s]+\.(?:png|jpg|
\* jpeg|gif|webp))/i: a keyword, later a separator, right after it a "/"
\* that starts the group
keywordStarts(s) ==
    { j \in 2..Len(s) :
        /\ s[j] \in PathStarts
        /\ s[j - 1] \in Separators
        /\ spanEnds(s, j, ImageEnds) # {}
        /\ \E i \in 1..(j - 1) :
              s[i] \in Keywords /\ (i < j - 1 \/ s[i] = Open) }

\* /(\/Users\/[\/\w\-\.\s]+\.(?:png|jpg|jpeg|gif|webp|pdf|csv|txt|doc|
\* docx))/i
usersStarts(s) ==
    { j \in 1..Len(s) : s[j] \in UsersStarts /\ spanEnds(s, j, FileEnds) # {} }

\* imagePathMatch[1]: the first pattern, else the second; <<>> for no match
imagePathMatch(s) ==
    IF keywordStarts(s) # {}
    THEN group(s, keywordStarts(s), ImageEnds)
    ELSE group(s, usersStarts(s), FileEnds)

\* a repair that replaces every space of the path
fixedPath_EverySpace(filePath) ==
    [i \in DOMAIN filePath |-> IF filePath[i] = Sp THEN NNBSP ELSE filePath[i]]

\* filePath.replace(/ (AM|PM)\./g, '\u202f$1.')
fixedPath(filePath) ==
    [i \in DOMAIN filePath |->
        IF filePath[i] = Sp /\ i < Len(filePath) /\ filePath[i + 1] = "AM.png"
        THEN NNBSP ELSE filePath[i]]

\* a handler that falls back on the legacy patterns when the directive's
\* file is missing
legacyBranch_Fallback(aiResponse, existing) ==
    /\ imagePathMatch(aiResponse) # <<>>
    /\ \/ ~hasDirective(aiResponse)
       \/ parseDirective(aiResponse).filePath \notin existing

\* else if (imagePathMatch && imagePathMatch[1]): the branch of the legacy
\* patterns is taken only when the directive did not match
legacyBranch(aiResponse, existing) ==
    ~hasDirective(aiResponse) /\ imagePathMatch(aiResponse) # <<>>

\* the paths the handler may look up for a response; fs.existsSync is false
\* for the empty path
Candidates(aiResponse) ==
    (IF hasDirective(aiResponse)
     THEN {parseDirective(aiResponse).filePath,
           fixedPath(parseDirective(aiResponse).filePath)}
     ELSE IF imagePathMatch(aiResponse) # <<>>
     THEN {trim(imagePathMatch(aiResponse))}
     ELSE {}) \ {<<>>}

Handling(aiResponse) ==
    [aiResponse |-> aiResponse, done |-> FALSE, existing |-> {},
     viaHeuristic |-> FALSE, cleanResponse |-> <<>>, mediaPath |-> <<>>,
     caption |-> <<>>, fileSent |-> FALSE, replyText |-> <<>>]

\* the outcome of the directive branch: existing is the set of paths for
\* which fs.existsSync is true, sent the result of sendWhatsAppMedia.  The
\* responses explored are shorter than the 200 characters of the caption.
directiveBranch(aiResponse, existing, sent) ==
    LET r == parseDirective(aiResponse)
        filePath == IF r.filePath \notin existing
                       /\ fixedPath(r.filePath) \in existing
                    THEN fixedPath(r.filePath) ELSE r.filePath
    IN IF filePath \in existing
       THEN [cleanResponse |-> r.cleanResponse, mediaPath |-> filePath,
             caption |-> r.cleanResponse, fileSent |-> sent]
       ELSE [cleanResponse |-> <<NotFoundPrefix>> \o filePath
                                  \o <<BlankLine>> \o r.cleanResponse,
             mediaPath |-> <<>>, caption |-> <<>>, fileSent |-> FALSE]

\* the outcome of the branch of the legacy patterns
imageBranch(aiResponse, existing, sent) ==
    LET imagePath == trim(imagePathMatch(aiResponse))
    IN IF imagePath \in existing
       THEN [cleanResponse |-> aiResponse, mediaPath |-> imagePath,
             caption |-> aiResponse, fileSent |-> sent]
       ELSE [cleanResponse |-> aiResponse, mediaPath |-> <<>>,
             caption |-> <<>>, fileSent |-> FALSE]

\* the handler after stopTyping, up to the text reply:
\* if (!fileSent) await sendWhatsAppReply(cleanResponse || aiResponse)
HandleResponse(existing, sent) ==
    /\ ~handling.done
    /\ LET aiResponse == handling.aiResponse
           legacy == legacyBranch(aiResponse, existing)
           o == IF legacy
                THEN imageBranch(aiResponse, existing, sent)
                ELSE IF hasDirective(aiResponse)
                THEN directiveBranch(aiResponse, existing, sent)
                ELSE [cleanResponse |-> aiResponse, mediaPath |-> <<>>,
                      caption |-> <<>>, fileSent |-> FALSE]
       IN handling' =
             [aiResponse |-> aiResponse, done |-> TRUE, existing |-> existing,
              viaHeuristic |-> legacy,
              cleanResponse |-> o.cleanResponse, mediaPath |-> o.mediaPath,
              caption |-> o.caption, fileSent |-> o.fileSent,
              replyText |-> IF o.fileSent THEN <<>>
                            ELSE IF o.cleanResponse # <<>>
                            THEN o.cleanResponse ELSE aiResponse]
    /\ UNCHANGED <<queueVars, aiVars, termVars, sendVars, execRun, extraction,
                   routing>>

-----------------------------------------------------------------------------
(* The /send command of the message_create handler.  The payload is the    *)
(* path matched by /\/send\s+(.+)/i, NoPath when the pattern does not match. *)

NoPath == <<>>
SendPayloads == {NoPath, <<"M", 9>>, <<"B", 4>>}

\* fs.existsSync(filePath) for the path of a file
fileExists(p) == existsSync(dirname(p)) /\ basename(p) \in FilesOf(dirname(p))

SendNote(k, p) == [kind |-> k, path |-> p]

InitSend ==
    /\ sendRuns = EmptyBag
    /\ sendNote = SendNote("none", NoPath)

\* text starting with "/send": usage without a path, 'File not found' for a
\* missing file; otherwise the reply 'Sending file: ...' and the call of
\* sendWhatsAppMedia, which the handler awaits
SendCmd(p) ==
    /\ IF p = NoPath
       THEN /\ sendNote' = SendNote("usage", p)
            /\ UNCHANGED sendRuns
       ELSE IF ~fileExists(p)
       THEN /\ sendNote' = SendNote("notfound", p)
            /\ UNCHANGED sendRuns
       ELSE /\ BagCardinality(sendRuns) < MaxSends
            /\ sendNote' = SendNote("sending", p)
            /\ sendRuns' = sendRuns (+) SetToBag({p})
    /\ UNCHANGED nonSendVars

\* a /send handler that calls sendWhatsAppMedia again after a failure
afterSendFailed_Retries(runs, p) == runs

\* the handler after sendWhatsAppMedia returned false: it replies 'Failed to
\* send file' and returns
afterSendFailed(runs, p) == runs (-) SetToBag({p})

\* the handler resumes after await sendWhatsAppMedia: io.emit('message',
\* 'File sent: ...') on true, the reply 'Failed to send file' on false;
\* return in both cases
SendMediaDone(p, sent) ==
    /\ BagIn(p, sendRuns)
    /\ IF sent
       THEN /\ sendRuns' = sendRuns (-) SetToBag({p})
            /\ sendNote' = SendNote("file-sent", p)
       ELSE /\ sendRuns' = afterSendFailed(sendRuns, p)
            /\ sendNote' = SendNote("send-failed", p)
    /\ UNCHANGED nonSendVars

-----------------------------------------------------------------------------
(* Classification of an inbound self-chat message: the chain of tests of    *)
(* the message_create handler.  A body is a sequence of symbols: a          *)
(* whitespace character, a word, or a piece of a command name; "/Queue" is  *)
(* "/queue" in another letter case.                                         *)

CmdSymbols == {Sp, "x", "/claude", "/qwen", "/status", "/clear", "/queue",
               "/Queue", "-status", "-stop", "/send", "/screenshot"}

\* a lower-casing that leaves every letter as it is
toLowerCase_Identity(s) == s

\* String.prototype.toLowerCase
toLowerCase(s) == [i \in DOMAIN s |-> IF s[i] = "/Queue" THEN "/queue" ELSE s[i]]

\* String.prototype.startsWith
startsWith(s, prefix) ==
    /\ Len(s) >= Len(prefix)
    /\ SubSeq(s, 1, Len(prefix)) = prefix

\* String.prototype.match(/<name>\s+.../i): the places where the command
\* name is followed by whitespace (the text is trimmed, so something other
\* than whitespace follows), and the text after the whitespace of the first
\* such place
nameThenSpace(text, name) ==
    { i \in 1..(Len(text) - 1) :
        toLowerCase(text)[i] = name /\ text[i + 1] = Sp }
afterName(text, name) ==
    LET i == CHOOSE m \in nameThenSpace(text, name) :
                 \A n \in nameThenSpace(text, name) : m <= n
    IN trimStart(SubSeq(text, i + 1, Len(text)))

\* (\S+): the symbols up to the first whitespace
RECURSIVE firstWord(_)
firstWord(s) ==
    IF s = <<>> \/ Head(s) = Sp THEN <<>> ELSE <<Head(s)>> \o firstWord(Tail(s))

Route(handler, payload) == [handler |-> handler, payload |-> payload]

\* the text branch: if (message.body && message.body.trim() &&
\* !message.hasMedia) { ... }, the tests in the order of the code
classifyText(text) ==
    LET lower == toLowerCase(text)
    IN CASE lower = <<"/claude">> -> Route("claude", <<>>)
         [] lower = <<"/qwen">> -> Route("qwen", <<>>)
         [] lower = <<"/status">> -> Route("status", <<>>)
         [] lower = <<"/clear">> -> Route("clear", <<>>)
         [] OTHER ->
            IF startsWith(lower, <<"/queue", Sp>>)
            THEN IF nameThenSpace(text, "/queue") = {}
                 THEN Route("queue-usage", <<>>)
                 ELSE Route("queue", trim(afterName(text, "/queue")))
            ELSE IF lower = <<"/queue", "-status">>
            THEN Route("queue-status", <<>>)
            ELSE IF lower = <<"/queue", "-stop">>
            THEN Route("queue-stop", <<>>)
            ELSE IF startsWith(lower, <<"/send">>)
            THEN IF nameThenSpace(text, "/send") = {}
                 THEN Route("send-usage", <<>>)
                 ELSE Route("send", trim(afterName(text, "/send")))
            ELSE IF startsWith(lower, <<"/screenshot">>)
            THEN IF nameThenSpace(text, "/screenshot") = {}
                 THEN Route("screenshot-usage", <<>>)
                 ELSE Route("screenshot",
                            firstWord(afterName(text, "/screenshot")))
            ELSE Route("freeform", text)

\* what the handler does with a self-chat message: body is message.body,
\* hasMedia is message.hasMedia, media tells whether downloadMedia gave the
\* media (msgData.media is set)
classify(body, hasMedia, media) ==
    IF trim(body) # <<>> /\ ~hasMedia
    THEN classifyText(trim(body))
    ELSE IF hasMedia /\ media
    THEN Route("media", body)
    ELSE Route("ignored", <<>>)

Routing(body, hasMedia, media) ==
    [body |-> body, hasMedia |-> hasMedia, media |-> media,
     route |-> Route("pending", <<>>)]

\* the handler classifies one message
Classify ==
    /\ routing.route.handler = "pending"
    /\ routing' = [routing EXCEPT
                      !.route = classify(routing.body, routing.hasMedia,
                                         routing.media)]
    /\ UNCHANGED <<queueVars, aiVars, termVars, sendVars, execRun, extraction,
                   handling>>

InitPure ==
    /\ execRun = ExecRun(NoError, <<>>, <<>>)
    /\ extraction = Extraction(<<>>)
    /\ routing = Routing(<<>>, FALSE, FALSE)
    /\ handling = Handling(<<>>)

\* the exec callback is called with the outputs of one run
ExecCallback ==
    /\ ~execRun.done
    /\ execRun' = [execRun EXCEPT
                      !.response = ExecResponse(execRun.error, execRun.stdout,
                                                execRun.stderr),
                      !.done = TRUE]
    /\ UNCHANGED <<queueVars, aiVars, termVars, sendVars, extraction, routing,
                   handling>>

-----------------------------------------------------------------------------
Init == InitQueue /\ InitAI /\ InitTerm /\ InitSend /\ InitPure

NextQueue ==
    \/ \E f \in Folders, ms \in IntervalsMs : QueueCmd(f, ms)
    \/ \E t \in queueTimers : QueueTick(t)
    \/ \E p \in BagToSet(deliveries) : DeliverOk(p)
    \/ \E p \in BagToSet(deliveries) : DeliverFail(p)
    \/ QueueStopCmd
    \/ QueueStatusCmd

\* the file queue alone
SpecQueue == Init /\ [][NextQueue]_vars

\* one Start of the queue and nothing else from the user: no /queue-stop and
\* no further /queue once a Start has succeeded
StartOnce ==
    /\ starts = 0
    /\ \E f \in Folders, ms \in IntervalsMs : QueueCmd(f, ms)

NextLive ==
    \/ StartOnce
    \/ \E t \in queueTimers : QueueTick(t)
    \/ \E p \in BagToSet(deliveries) : DeliverOk(p)
    \/ \E p \in BagToSet(deliveries) : DeliverFail(p)

\* setInterval keeps firing the callback while the timer is armed, and the
\* promise of every sendWhatsAppMedia call settles
Settle == \E p \in BagToSet(deliveries) : DeliverOk(p) \/ DeliverFail(p)

SpecLive ==
    /\ Init
    /\ [][NextLive]_vars
    /\ WF_vars(\E t \in queueTimers : QueueTick(t))
    /\ WF_vars(Settle)

\* /send commands next to a queue on folder "B"
NextSend ==
    \/ \E p \in SendPayloads : SendCmd(p)
    \/ \E p \in BagToSet(sendRuns), sent \in BOOLEAN : SendMediaDone(p, sent)
    \/ QueueCmd("B", 1000)
    \/ \E t \in queueTimers : QueueTick(t)
    \/ \E p \in BagToSet(deliveries) : DeliverOk(p)
    \/ \E p \in BagToSet(deliveries) : DeliverFail(p)

SpecSend == Init /\ [][NextSend]_vars

\* AI rounds that may overlap
NextAI ==
    \/ ClientReady
    \/ ClientDisconnected
    \/ \E k \in {"text", "media"} : ReceivePrompt(k, MaxMsgs, FALSE)
    \/ \E h \in handlers, ok \in BOOLEAN : GetChatDone(h, ok)
    \/ \E h \in handlers, ok \in BOOLEAN : SendStateDone(h, ok)
    \/ \E t \in typingTimers : TypingTick(t)
    \/ \E h \in handlers, o \in Outcomes : AIDone(h, o)
    \/ \E p \in Providers : SwitchCmd(p)
    \/ ClearCmd
    \/ StatusCmd

SpecAI == Init /\ [][NextAI]_vars

\* AI rounds that arrive one at a time: a message is only received when no
\* other round is in flight
NextSolo ==
    \/ ClientReady
    \/ ClientDisconnected
    \/ \E k \in {"text", "media"} : ReceivePrompt(k, MaxMsgs, TRUE)
    \/ \E h \in handlers, ok \in BOOLEAN : GetChatDone(h, ok)
    \/ \E h \in handlers, ok \in BOOLEAN : SendStateDone(h, ok)
    \/ \E t \in typingTimers : TypingTick(t)
    \/ \E h \in handlers, o \in Outcomes : AIDone(h, o)
    \/ \E p \in Providers : SwitchCmd(p)
    \/ ClearCmd
    \/ StatusCmd

SpecSolo == Init /\ [][NextSolo]_vars

\* a long run of rounds on claude, one at a time
NextSeq ==
    \/ ClientReady
    \/ \E k \in {"text", "media"} : ReceivePrompt(k, MaxSeqMsgs, TRUE)
    \/ \E h \in handlers, ok \in BOOLEAN : GetChatDone(h, ok)
    \/ \E h \in handlers, ok \in BOOLEAN : SendStateDone(h, ok)
    \/ \E h \in handlers, o \in Outcomes : AIDone(h, o)
    \/ ClearCmd

SpecSeq == Init /\ [][NextSeq]_vars

\* terminal prompts, with provider switches between them
NextTerminal ==
    \/ \E p \in Providers : SwitchCmd(p)
    \/ \E throws \in BOOLEAN : TerminalPrompt(throws)
    \/ \E i \in DOMAIN terminals, st \in Streams, c \in ChunkTexts :
           SpawnData(i, st, c)
    \/ \E i \in DOMAIN terminals : SpawnError(i)
    \/ \E i \in DOMAIN terminals : SpawnClose(i)
    \/ \E i \in DOMAIN terminals, e \in Errors,
          o \in ChunkTexts \cup {""}, d \in ChunkTexts \cup {""} :
           ExecDone(i, e, o, d)

SpecTerminal == Init /\ [][NextTerminal]_vars

\* one run of the exec callback on each combination of outputs
InitExec ==
    /\ InitQueue /\ InitAI /\ InitTerm /\ InitSend
    /\ extraction = Extraction(<<>>)
    /\ routing = Routing(<<>>, FALSE, FALSE)
    /\ handling = Handling(<<>>)
    /\ execRun \in { ExecRun(e, o, d) : e \in Errors,
                                         o \in Strings(StdoutSymbols, MaxStdout),
                                         d \in Strings(StderrSymbols, MaxStderr) }

SpecExec == InitExec /\ [][ExecCallback]_vars

\* one parse of each AI response
InitParse ==
    /\ InitQueue /\ InitAI /\ InitTerm /\ InitSend
    /\ execRun = ExecRun(NoError, <<>>, <<>>)
    /\ routing = Routing(<<>>, FALSE, FALSE)
    /\ handling = Handling(<<>>)
    /\ extraction \in { Extraction(t) : t \in Strings(TextSymbols, MaxText) }

SpecParse == InitParse /\ [][ParseDirective]_vars

\* one classification of each message: a body with or without media, the
\* download of the media succeeding or not
InitRoute ==
    /\ InitQueue /\ InitAI /\ InitTerm /\ InitSend
    /\ execRun = ExecRun(NoError, <<>>, <<>>)
    /\ extraction = Extraction(<<>>)
    /\ \E b \in Strings(CmdSymbols, MaxBody), hm \in BOOLEAN :
          \E m \in IF hm THEN BOOLEAN ELSE {FALSE} :
             routing = Routing(b, hm, m)
    /\ handling = Handling(<<>>)

SpecRoute == InitRoute /\ [][Classify]_vars

\* one handling of each AI response, for each state of the file system and
\* each result of the media send
InitHandle ==
    /\ InitQueue /\ InitAI /\ InitTerm /\ InitSend
    /\ execRun = ExecRun(NoError, <<>>, <<>>)
    /\ extraction = Extraction(<<>>)
    /\ routing = Routing(<<>>, FALSE, FALSE)
    /\ handling \in { Handling(t) : t \in Strings(ReplySymbols, MaxReply) }

NextHandle ==
    \E t \in BOOLEAN :
        \E existing \in SUBSET Candidates(handling.aiResponse) :
            HandleResponse(existing, t)

SpecHandle == InitHandle /\ [][NextHandle]_vars

-----------------------------------------------------------------------------
(* Properties of the file queue *)

FailedStartKinds == {"notfound", "notdir", "nofiles"}

\* C3: a /queue command that fails (folder missing, not a directory, or with
\* no regular file) changes nothing: queueStatus, the pending list and the
\* armed timer of a queue that is already active are as before the call.
C3_FailedStartNoTransition ==
    [][notice'.kind \in FailedStartKinds =>
         /\ queueStatus' = queueStatus
         /\ fileQueue' = fileQueue
         /\ queueTimers' = queueTimers]_vars

\* C4: after a restart the state holds only files and counts of the new
\* folder: every pending path lies in queueStatus.folder, every name of
\* sentList is a file of that folder, and no more files are counted as sent
\* than the folder holds, whatever the deliveries in flight do afterwards.
C4_RestartNoMerge ==
    /\ \A i \in 1..Len(fileQueue) : dirname(fileQueue[i]) = queueStatus.folder
    /\ \A i \in 1..Len(queueStatus.sentList) :
           queueStatus.sentList[i] \in FilesOf(queueStatus.folder)
    /\ queueStatus.sentFiles <= queueStatus.totalFiles

\* C5: sentFiles + |pending| = totalFiles.  The exception the claim makes for
\* the re-insertion of a failed file is read as widely as it can be: the
\* sum is only required of an active queue with no delivery in flight (no
\* file popped and not yet counted or put back).
C5_CountsAddUp ==
    (queueStatus.active /\ deliveries = EmptyBag) =>
        queueStatus.sentFiles + Len(fileQueue) = queueStatus.totalFiles

\* C9: a failed delivery is put back at the head of pending and the next timer
\* tick attempts that file before any other: while a timer is armed, every
\* path that failed since the last tick is the head of pending, which is what
\* the next tick pops.
C9_FailedFileRetriedNext ==
    (queueTimers # {} /\ retryDue # {}) =>
        (fileQueue # <<>> /\ retryDue = {Head(fileQueue)})

Ascending(names) ==
    \A i, j \in 1..Len(names) : i < j => names[i] < names[j]

\* the names of the paths in flight, as a sequence (any order)
InFlightNames ==
    IF deliveries = EmptyBag THEN <<>>
    ELSE <<basename(CHOOSE p \in BagToSet(deliveries) : TRUE)>>

PendingNames == [i \in 1..Len(fileQueue) |-> basename(fileQueue[i])]

\* C11: Start enumerates the files sorted by name and delivers them in that
\* order, the first within the Start call and one more on each timer tick:
\* in a run where every delivery succeeds before the next tick, the names
\* already sent, then the name in flight, then the names still pending, are
\* in ascending lexicographic order.
C11_LexicographicOrder ==
    (ticks.regular /\ BagCardinality(deliveries) <= 1) =>
        Ascending(queueStatus.sentList \o InFlightNames \o PendingNames)

\* C12 as stated: three files, interval 1000, every delivery succeeding
\* before the next tick; a Status asked after two timer ticks reports
\* sentFiles = 2 and remaining = 1.
C12_StatusAfterTwoTicks ==
    (/\ notice.kind = "status-active"
     /\ ticks = Regular(2)
     /\ queueStatus.totalFiles = 3
     /\ queueStatus.intervalMs = 1000)
        => (notice.a = 2 /\ notice.b = 1)

\* C12 amended: the first file is popped by Start itself, so sentFiles = 2
\* and remaining = 1 is what Status reports after ONE timer tick whose
\* delivery has succeeded; after two timer ticks remaining is 0, and
\* sentFiles is 3 once the third delivery has succeeded.
C12_StatusAfterOneTick ==
    (/\ notice.kind = "status-active"
     /\ ticks.regular
     /\ deliveries = EmptyBag
     /\ queueStatus.totalFiles = 3
     /\ queueStatus.intervalMs = 1000)
        => /\ ticks.n = 0 => (notice.a = 1 /\ notice.b = 2)
           /\ ticks.n = 1 => (notice.a = 2 /\ notice.b = 1)
           /\ ticks.n = 2 => (notice.a = 3 /\ notice.b = 0)

\* C12 witness: Status after one tick of a three-file queue at 1000 ms
C12_Witness ==
    /\ notice = Notice("status-active", 2, 1)
    /\ ticks = Regular(1)
    /\ deliveries = EmptyBag
    /\ queueStatus.totalFiles = 3
    /\ queueStatus.intervalMs = 1000

\* C13: /queue-stop on an active queue cancels the timer, empties pending and
\* leaves the queue idle, with folder, intervalMs, totalFiles, sentFiles and
\* sentList as they were, and reports the counts reached; /queue-stop on an
\* idle queue changes nothing.
C13_StopFrame ==
    [][/\ notice'.kind = "stopped" =>
            /\ queueStatus.active
            /\ queueTimers' = {}
            /\ queueInterval' = NoTimer
            /\ fileQueue' = <<>>
            /\ queueStatus' = [queueStatus EXCEPT !.active = FALSE]
            /\ notice'.a = queueStatus'.sentFiles
            /\ notice'.b = queueStatus'.totalFiles
       /\ notice'.kind = "nostop" =>
            /\ ~queueStatus.active
            /\ UNCHANGED <<fileQueue, queueInterval, queueStatus,
                           queueTimers, deliveries>>]_vars

\* C13 witness: a queue on "A" stopped after one file was sent
C13_Witness ==
    /\ notice = Notice("stopped", 1, 3)
    /\ queueStatus.sentList = <<1>>
    /\ ~queueStatus.active
    /\ queueTimers = {}

StatusKinds == {"status-none", "status-active", "status-finished"}

\* C14: /queue-status answers in every state and changes nothing.  What
\* getQueueStatus returns is queueStatus plus the length and the names of
\* pending; a scheduler that was never started is reported as no queue
\* (inactive, all counts zero).
C14_StatusReadOnly ==
    [][notice'.kind \in StatusKinds =>
         /\ UNCHANGED <<fileQueue, queueInterval, queueStatus, queueTimers,
                        deliveries, starts>>
         /\ getQueueStatus.remaining = Len(fileQueue)
         /\ getQueueStatus.remainingFiles = PendingNames
         /\ \A f \in DOMAIN queueStatus : getQueueStatus[f] = queueStatus[f]
         /\ starts = 0 => notice'.kind = "status-none"
         /\ notice'.kind = "status-none" =>
                /\ ~queueStatus.active
                /\ queueStatus.totalFiles = 0
                /\ queueStatus.sentFiles = 0
                /\ fileQueue = <<>>
         /\ notice'.kind = "status-active" =>
                /\ queueStatus.active
                /\ notice'.a = queueStatus.sentFiles
                /\ notice'.b = Len(fileQueue)
         /\ notice'.kind = "status-finished" =>
                /\ ~queueStatus.active
                /\ notice'.a = queueStatus.sentFiles]_vars

\* C14 witness: Status of a running queue on "B" with one file sent and one
\* pending
C14_Witness ==
    /\ notice = Notice("status-active", 1, 1)
    /\ queueStatus.folder = "B"
    /\ Len(fileQueue) = 1
    /\ queueTimers # {}

\* C25: no failure is handled silently.  For the scheduler: the step in which
\* a delivery fails (the file in flight goes back to the head of pending)
\* sends a reply or emits a notification.
C25_FailedDeliveryReported ==
    [][\A p \in BagToSet(deliveries) :
          (/\ deliveries' = deliveries (-) SetToBag({p})
           /\ fileQueue' = <<p>> \o fileQueue)
             => notice'.kind # "none"]_vars

\* C27: every successful delivery adds one to sentFiles and one name to
\* sentList, so sentFiles is the length of sentList and never exceeds
\* totalFiles.
C27_SentWithinTotal ==
    /\ queueStatus.sentFiles = Len(queueStatus.sentList)
    /\ queueStatus.sentFiles <= queueStatus.totalFiles

\* the steps of the scheduler, as seen in the variables: a delivery of p
\* fails, a timer tick pops the head of pending
FailedDelivery(p) ==
    /\ BagIn(p, deliveries)
    /\ deliveries' = deliveries (-) SetToBag({p})
    /\ fileQueue' = <<p>> \o fileQueue
PoppingTick ==
    /\ fileQueue # <<>>
    /\ fileQueue' = Tail(fileQueue)
    /\ starts' = starts

\* C26: a failed /send is reported once, in the step in which its handler
\* ends, and nothing sends the file again; a failed scheduler delivery is
\* not reported but put back at the head of pending with the timer left
\* running, and every tick hands the head of pending to delivery, however
\* often it failed before.
C26_SendFailsOnceQueueRetries ==
    [][/\ (sendNote'.kind = "send-failed" /\ sendVars' # sendVars) =>
             /\ BagIn(sendNote'.path, sendRuns)
             /\ sendRuns' = sendRuns (-) SetToBag({sendNote'.path})
             /\ UNCHANGED queueVars
       /\ \A p \in BagToSet(sendRuns) :
             sendRuns' = sendRuns (-) SetToBag({p}) =>
                sendNote' \in {SendNote("file-sent", p),
                               SendNote("send-failed", p)}
       /\ \A p \in BagToSet(sendRuns') :
             CopiesIn(p, sendRuns') > CopiesIn(p, sendRuns) =>
                sendNote' = SendNote("sending", p)
       /\ \A p \in BagToSet(deliveries) :
             FailedDelivery(p) =>
                /\ Head(fileQueue') = p
                /\ notice' = Silent
                /\ UNCHANGED <<queueInterval, queueTimers, sendVars>>
       /\ PoppingTick =>
             deliveries' = deliveries (+) SetToBag({Head(fileQueue)})]_vars

\* a /send has just failed and been reported while a file of the queue that
\* failed before is being delivered again
C26_Witness ==
    /\ sendNote = SendNote("send-failed", <<"B", 4>>)
    /\ sendRuns = EmptyBag
    /\ starts = 1
    /\ ticks = Irregular
    /\ retryDue = {}
    /\ deliveries = SetToBag({<<"B", 4>>})
    /\ fileQueue = <<<<"B", 5>>>>

\* C34: the completion notice is only emitted when every file has been
\* delivered.
C34_CompleteMeansAllSent ==
    notice.kind = "complete" =>
       queueStatus.sentFiles = queueStatus.totalFiles

\* C35: while the queue is not active, pending is empty and no timer is
\* armed.
C35_IdleHasNothingPending ==
    ~queueStatus.active => fileQueue = <<>> /\ queueTimers = {}

\* name a comes before name b in sentList
SentBefore(a, b) ==
    \E i \in 1..Len(queueStatus.sentList) :
        /\ queueStatus.sentList[i] = a
        /\ \A j \in 1..i : queueStatus.sentList[j] # b

\* C36: deliveries complete in the order of the listing and no file is
\* delivered twice.  In every listing of folder "B" name 4 comes before
\* name 5, in every listing of folder "A" names 1 and 2 come before name 3.
C36_DeliveredInOrderOnce ==
    /\ \A i, j \in 1..Len(queueStatus.sentList) :
          i # j => queueStatus.sentList[i] # queueStatus.sentList[j]
    /\ \A i \in 1..Len(queueStatus.sentList) :
          /\ queueStatus.sentList[i] = 5 => SentBefore(4, 5)
          /\ queueStatus.sentList[i] = 3 => SentBefore(1, 3) /\ SentBefore(2, 3)

\* every file of the started folder is in sentList
AllDelivered ==
    /\ starts = 1
    /\ { queueStatus.sentList[i] : i \in 1..Len(queueStatus.sentList) } =
          FilesOf(queueStatus.folder)

\* every file of the started folder was delivered once and nothing is left
AllDeliveredOnce ==
    /\ AllDelivered
    /\ Len(queueStatus.sentList) = queueStatus.totalFiles
    /\ queueStatus.sentFiles = queueStatus.totalFiles
    /\ fileQueue = <<>>
    /\ deliveries = EmptyBag

IdleWithCompletion ==
    ~queueStatus.active /\ notice.kind = "complete"

\* C37: after one successful Start, with no Stop and no further Start, if
\* every file's delivery eventually succeeds then every file ends up
\* delivered exactly once and the queue becomes idle with the completion
\* notice.
C37_EveryFileDeliveredThenIdle ==
    <>AllDelivered => (<>[]AllDeliveredOnce /\ <>IdleWithCompletion)

\* the three files of folder "A" are delivered, one of them at its second
\* attempt, and the queue is idle with the completion notice
C37_Witness ==
    /\ AllDeliveredOnce
    /\ IdleWithCompletion
    /\ queueStatus.totalFiles = 3
    /\ ~ticks.regular

-----------------------------------------------------------------------------
(* Properties of the AI rounds *)

LastN(s, n) == IF Len(s) > n THEN SubSeq(s, Len(s) - n + 1, Len(s)) ELSE s

\* the rounds whose user entry is pushed and whose assistant entry is not
OpenRounds == {h \in handlers : h.pc = "ai" /\ h.provider = "claude"}

\* the rounds whose startTyping armed the heartbeat and that have not ended
TypingRounds == {h \in handlers : h.pc = "ai" /\ h.typing}

\* C1: after any number of completed rounds on claude, run one at a time, the
\* stored history has at most MAX_HISTORY entries and is the most recent
\* MAX_HISTORY entries pushed, in their order.
C1_HistoryIsLast20 ==
    handlers = {} =>
        /\ Len(conversationHistory) <= MAX_HISTORY
        /\ conversationHistory = LastN(log, MAX_HISTORY)

\* C2: at most one round is open (user entry pushed, assistant entry not yet
\* pushed) at any time.
C2_OneOpenRound == Cardinality(OpenRounds) <= 1

\* C6: at most one heartbeat timer is armed at any time.
C6_OneHeartbeatTimer == Cardinality(typingTimers) <= 1

\* C7: once every round has ended no heartbeat timer is armed and no periodic
\* typing signal is emitted.
C7_NoHeartbeatAfterRounds ==
    handlers = {} => (typingTimers = {} /\ presence # "tick")

\* C8: when rounds never overlap, a round whose heartbeat started has exactly
\* one timer armed, its own, from the start until its end; the round's last
\* step is the only one that stops a timer, no timer is armed outside such a
\* round, the immediate signal is only sent by a round that is starting its
\* heartbeat and a periodic signal only while such a round is in flight.
C8_SoloHeartbeat ==
    /\ \A h \in TypingRounds : typingTimers = {h.id} /\ typingInterval = h.id
    /\ TypingRounds = {} => (typingTimers = {} /\ typingInterval = NoTimer)
    /\ presence = "tick" => TypingRounds # {}
    /\ presence = "armed" => TypingRounds # {}
    /\ presence = "start" => \E h \in handlers : h.pc = "sendState"
    /\ presence = "stopped" => (handlers = {} /\ reply.kind \in {"response", "error"})

\* C8 witness: a round on qwen has just ended with a spawn error and its
\* heartbeat, the second one of the run, was stopped
C8_Witness ==
    /\ presence = "stopped"
    /\ reply.kind = "error"
    /\ reply.id = 2
    /\ reply.provider = "qwen"
    /\ handlers = {}
    /\ typingTimers = {}

\* C16: every way a round ends, on either backend, leaves that round's
\* Assistant entry as the last entry of the history and sends a reply.
C16_OutcomeRecordedAndReplied ==
    reply.cause \in Outcomes =>
        /\ reply.kind \in {"response", "error"}
        /\ conversationHistory # <<>>
        /\ conversationHistory[Len(conversationHistory)] =
               Entry("assistant", reply.id)

\* C17: a backend that could not be started leaves no entry for the failure
\* in the history and is reported on the error path, not as an AI response.
C17_SpawnErrorKeptOut ==
    reply.cause = "error" =>
        /\ reply.kind = "error"
        /\ \A i \in 1..Len(conversationHistory) :
               conversationHistory[i] # Entry("assistant", reply.id)

\* C30: in the stored history adjacent entries have different roles and
\* every assistant entry comes right after the user entry of its own round.
C30_RolesAlternate ==
    \A i \in 1..Len(conversationHistory) :
        /\ i > 1 => conversationHistory[i].role
                       # conversationHistory[i - 1].role
        /\ conversationHistory[i].role = "assistant" =>
              /\ i > 1
              /\ conversationHistory[i - 1] =
                    Entry("user", conversationHistory[i].content)

\* the lines of a prompt that serialise history entries
PriorLines(prompt) ==
    SelectSeq(prompt, LAMBDA part : part.tag \in {"User", "Assistant"})

\* C29: the prompt of a round on claude is the system instructions, then
\* one "<Role>: <content>" line for each entry stored before the round's own
\* user entry, in order and with none left out, then the current text, which
\* is not among the lines.
C29_PromptFromStoredHistory ==
    [][\A h \in handlers' :
          (h.pc = "ai" /\ h.provider = "claude" /\ h \notin handlers) =>
             LET prior == PriorLines(h.prompt)
             IN /\ Head(h.prompt).tag = "system"
                /\ h.prompt[Len(h.prompt)] = Part("prompt", h.id)
                /\ Len(prior) = Len(conversationHistory)
                /\ \A i \in 1..Len(prior) :
                      /\ prior[i].content = conversationHistory[i].content
                      /\ prior[i].tag = "User"
                            <=> conversationHistory[i].role = "user"
                      /\ prior[i].tag = "Assistant"
                            <=> conversationHistory[i].role = "assistant"
                      /\ prior[i].content # h.id
                /\ \A i \in 1..Len(h.prompt) :
                      h.prompt[i].tag \in {"User", "Assistant"} =>
                         /\ 1 < i /\ i < Len(h.prompt)
                         /\ h.prompt[i - 1].tag
                               \in {"Previous conversation:", "User", "Assistant"}]_vars

\* a round whose prompt carries the whole untrimmed history of 21 entries,
\* one more than the trimmed history keeps
C29_Witness ==
    \E h \in handlers :
        /\ h.pc = "ai" /\ h.provider = "claude"
        /\ Len(PriorLines(h.prompt)) = MAX_HISTORY + 1
        /\ Len(conversationHistory) = MAX_HISTORY

\* C31: after a /clear the history holds no entry of a round started
\* before it.  log holds what was pushed since the last /clear, so the user
\* entry of every assistant entry of the history must be in log.
C31_NoEntryFromBeforeClear ==
    \A i \in 1..Len(conversationHistory) :
        conversationHistory[i].role = "assistant" =>
           \E j \in 1..Len(log) :
               log[j] = Entry("user", conversationHistory[i].content)

\* C32: the backend named in the reply that ends a round is the backend
\* that served the round.
C32_ReplyNamesServingBackend ==
    [][\A h \in handlers :
          (/\ h.pc = "ai"
           /\ h \notin handlers'
           /\ reply'.kind \in {"response", "error"}
           /\ reply'.id = h.id) =>
              reply'.provider = h.provider]_vars

\* C33: a step that starts or ends a round on qwen leaves the history as it
\* is, and so does a provider switch.
C33_QwenAndSwitchKeepHistory ==
    [][/\ \A h \in handlers' :
             (h \notin handlers /\ h.pc = "ai" /\ h.provider = "qwen") =>
                conversationHistory' = conversationHistory
       /\ \A h \in handlers :
             (h \notin handlers' /\ h.pc = "ai" /\ h.provider = "qwen") =>
                conversationHistory' = conversationHistory
       /\ reply'.kind = "switched" =>
             conversationHistory' = conversationHistory]_vars

\* a round has ended with a response and nothing was pushed since the last
\* /clear: the round ran on qwen
C33_Witness ==
    /\ reply.kind = "response"
    /\ reply.cause = "close"
    /\ msgs = 1
    /\ handlers = {}
    /\ log = <<>>
    /\ conversationHistory = <<>>

-----------------------------------------------------------------------------
(* Properties of the exec callback *)

NonBlank(s) == \E i \in 1..Len(s) : s[i] # Sp
HasMarker(s) == \E i \in 1..Len(s) : s[i] \in {"authorize", "login"}
HasUrl(s) == \E i \in 1..Len(s) : s[i] \in Urls
FirstUrl(s) ==
    s[CHOOSE i \in 1..Len(s) :
          s[i] \in Urls /\ \A j \in 1..(i - 1) : s[j] \notin Urls]

\* C15: the response is chosen by strict precedence: non-blank stdout gives
\* stdout trimmed; else stderr with an authorize/login marker gives the
\* authorization message with the first URL of stderr, or the generic hint
\* when stderr holds no URL; else non-blank stderr gives stderr trimmed behind
\* the backend's name; else an error gives the process-error message; else the
\* no-response message.
C15_ResponsePrecedence ==
    execRun.done =>
        LET o == execRun.stdout
            d == execRun.stderr
            r == execRun.response
        IN /\ NonBlank(o) =>
                /\ r = trim(o)
                /\ r[1] # Sp /\ r[Len(r)] # Sp
           /\ (~NonBlank(o) /\ HasMarker(d)) =>
                /\ r[1] = "Please authorize Claude first: "
                /\ HasUrl(d) => (Len(r) >= 2 /\ r[2] = FirstUrl(d)
                                 /\ \A i \in 2..Len(r) : r[i] # Sp)
                /\ ~HasUrl(d) => r = <<"Please authorize Claude first: ",
                                      "Check terminal for auth URL">>
           /\ (~NonBlank(o) /\ ~HasMarker(d) /\ NonBlank(d)) =>
                r = <<"Claude: ">> \o trim(d)
           /\ (~NonBlank(o) /\ ~HasMarker(d) /\ ~NonBlank(d)
                 /\ execRun.error # NoError) =>
                r = <<"Claude error: ", execRun.error>>
           /\ (~NonBlank(o) /\ ~HasMarker(d) /\ ~NonBlank(d)
                 /\ execRun.error = NoError) =>
                r = <<"No response from Claude">>

\* C15 witness: blank stdout, an error, and a stderr with a login marker and
\* two URLs: the authorization message carries the first URL
C15_Witness ==
    /\ execRun.done
    /\ execRun.stdout = <<Sp>>
    /\ execRun.error # NoError
    /\ execRun.stderr = <<"login", "https://b", Sp, "https://a">>
    /\ execRun.response = <<"Please authorize Claude first: ", "https://b">>

-----------------------------------------------------------------------------
(* Properties of the terminal prompts *)

StreamSignals(r) == SelectSeq(r.emitted, LAMBDA g : g.event = "claude-stream")
ErrorSignals(r) == SelectSeq(r.emitted, LAMBDA g : g.event = "claude-error")
ChunkSignals(r) == SelectSeq(StreamSignals(r), LAMBDA g : ~g.done)
DoneSignals(r) == SelectSeq(StreamSignals(r), LAMBDA g : g.done)

\* C18: for each prompt, the chunks the handler was given are forwarded in
\* the order they arrived, each tagged done=false; one done=true signal with
\* empty text is emitted when the process has exited, none before; and no
\* chunk signal follows the done signal.
C18_ChunksThenOneDone ==
    \A i \in DOMAIN terminals :
        LET r == terminals[i]
            st == StreamSignals(r)
        IN /\ [j \in 1..Len(ChunkSignals(r)) |-> ChunkSignals(r)[j].text]
                = [j \in 1..Len(r.arrived) |-> r.arrived[j].text]
           /\ Len(DoneSignals(r)) = (IF r.pc = "closed" THEN 1 ELSE 0)
           /\ \A j \in 1..Len(st) : st[j].done =>
                                       (j = Len(st) /\ st[j].text = "")

\* C18 witness: a spawned process wrote to stdout, then to stderr, and exited
C18_Witness ==
    \E i \in DOMAIN terminals :
        /\ terminals[i].branch = "spawn"
        /\ terminals[i].arrived = <<[stream |-> "stdout", text |-> "c1"],
                                    [stream |-> "stderr", text |-> "c2"]>>
        /\ terminals[i].emitted =
              <<chunkSignal("c1"), chunkSignal("c2"), doneSignal>>

\* C19: a start failure of the spawned backend is reported on claude-error,
\* once and with the error's message; no claude-stream signal, chunk or done,
\* carries an error message, and a done signal that follows has empty text.
C19_SpawnErrorOnErrorChannel ==
    \A i \in DOMAIN terminals :
        LET r == terminals[i]
            st == StreamSignals(r)
        IN /\ (r.branch = "spawn" /\ r.failed) =>
                  /\ ErrorSignals(r) = <<errorSignal(SpawnErrorMessage)>>
                  /\ ChunkSignals(r) = <<>>
           /\ \A j \in 1..Len(st) :
                  /\ st[j].text \notin Errors \ {NoError}
                  /\ st[j].done => st[j].text = ""

\* C19 witness: a spawn failure reported on claude-error, then the close event
C19_Witness ==
    \E i \in DOMAIN terminals :
        /\ terminals[i].branch = "spawn"
        /\ terminals[i].failed
        /\ terminals[i].pc = "closed"
        /\ terminals[i].emitted =
              <<errorSignal(SpawnErrorMessage), doneSignal>>

-----------------------------------------------------------------------------
(* Properties of the directive parse *)

NonSpace(s) == SelectSeq(s, LAMBDA c : c # Sp)

\* the response without the characters of its matched tags
RECURSIVE OutsideTags(_)
OutsideTags(s) ==
    IF ~hasDirective(s) THEN s
    ELSE LET m == firstDirective(s)
         IN SubSeq(s, 1, m - 1) \o
            OutsideTags(SubSeq(s, closeAfter(s, m) + 1, Len(s)))

\* C20 as stated: when the response holds a directive, filePath is the path
\* of the first one and cleanResponse holds no "[SEND_FILE:" at all and all
\* the other text.
C20_NoTagOpenerLeft ==
    (extraction.done /\ extraction.found) =>
        /\ extraction.filePath = trim(sendFileMatch(extraction.aiResponse))
        /\ ~includes(extraction.cleanResponse, Open)
        /\ NonSpace(extraction.cleanResponse)
             = NonSpace(OutsideTags(extraction.aiResponse))

\* C20 amended: filePath is the path of the first well-formed directive (the
\* opener, one or more characters other than "]", then "]"); cleanResponse
\* holds no well-formed directive, has no whitespace at either end, and keeps
\* in order every non-whitespace character outside the removed directives.
\* An opener that is not part of a well-formed directive ("[SEND_FILE:]", or
\* one that is never closed) stays.
C20_NoDirectiveLeft ==
    (extraction.done /\ extraction.found) =>
        LET raw == extraction.aiResponse
            clean == extraction.cleanResponse
        IN /\ \E i \in 1..Len(raw), k \in 1..Len(raw) :
                 /\ raw[i] = Open /\ raw[k] = Close /\ k >= i + 2
                 /\ \A j \in (i + 1)..(k - 1) : raw[j] # Close
                 /\ \A i2 \in 1..(i - 1) :
                        ~(raw[i2] = Open /\ \E k2 \in (i2 + 2)..Len(raw) :
                             /\ raw[k2] = Close
                             /\ \A j \in (i2 + 1)..(k2 - 1) : raw[j] # Close)
                 /\ extraction.filePath = trim(SubSeq(raw, i + 1, k - 1))
           /\ ~hasDirective(clean)
           /\ clean # <<>> => (clean[1] # Sp /\ clean[Len(clean)] # Sp)
           /\ NonSpace(clean) = NonSpace(OutsideTags(raw))

\* C20 witness: "a [SEND_FILE:a] a" gives the path "a" and the text "a a"
C20_Witness ==
    /\ extraction.done
    /\ extraction.aiResponse = <<"a", Sp, Open, "a", Close, Sp, "a">>
    /\ extraction.filePath = <<"a">>
    /\ extraction.cleanResponse = <<"a", Sp, "a">>

-----------------------------------------------------------------------------
(* Properties of the message classification *)

\* the body as the command tests see it: trimmed and lower-cased
Normalised == [i \in DOMAIN trim(routing.body) |->
                 IF trim(routing.body)[i] = "/Queue" THEN "/queue"
                 ELSE trim(routing.body)[i]]
Classified == routing.route.handler # "pending"

C24_MissingPayloadGivesUsage ==
    \A c \in {"/queue", "/send", "/screenshot"} :
        (Classified /\ ~routing.hasMedia /\ Normalised = <<c>>) =>
           routing.route.handler =
              CASE c = "/queue" -> "queue-usage"
                [] c = "/send" -> "send-usage"
                [] c = "/screenshot" -> "screenshot-usage"

\* C28: a text equal to a command goes to that command's handler whether or
\* not media is attached, and never to an AI backend.
C28_CommandsBeforeMedia ==
    \A c \in {<<"/claude">>, <<"/qwen">>, <<"/status">>, <<"/clear">>,
              <<"/queue", "-status">>, <<"/queue", "-stop">>} :
        (Classified /\ Normalised = c) =>
           /\ routing.route.handler \notin {"freeform", "media"}
           /\ routing.route.handler =
                 CASE c = <<"/claude">> -> "claude"
                   [] c = <<"/qwen">> -> "qwen"
                   [] c = <<"/status">> -> "status"
                   [] c = <<"/clear">> -> "clear"
                   [] c = <<"/queue", "-status">> -> "queue-status"
                   [] c = <<"/queue", "-stop">> -> "queue-stop"

-----------------------------------------------------------------------------
(* Properties of the handling of an AI response *)

\* the path the directive of the handled response names
DirectivePath == trim(sendFileMatch(handling.aiResponse))

\* a path with each plain space right before AM. or PM. replaced by the
\* narrow no-break space
Repaired(path) ==
    [i \in DOMAIN path |->
        IF path[i] = Sp /\ i < Len(path) /\ path[i + 1] \in {"AM.png", "PM.png"}
        THEN NNBSP ELSE path[i]]

\* C21: when the directive's path does not exist, the one repair (plain
\* space before AM/PM to narrow no-break space) is tried and the repaired
\* path is used if it exists; if not, no media send is attempted, no path is
\* used, and the text replied is the file-not-found notice followed by the
\* cleaned text.
C21_MissingFileRepairedOnce ==
    (/\ handling.done
     /\ hasDirective(handling.aiResponse)
     /\ DirectivePath \notin handling.existing) =>
        IF Repaired(DirectivePath) \in handling.existing
        THEN handling.mediaPath = Repaired(DirectivePath)
        ELSE /\ handling.mediaPath = <<>>
             /\ ~handling.fileSent
             /\ ~handling.viaHeuristic
             /\ handling.cleanResponse =
                   <<NotFoundPrefix>> \o DirectivePath \o <<BlankLine>>
                      \o trim(removeTags(handling.aiResponse))
             /\ handling.replyText = handling.cleanResponse

\* "[SEND_FILE:/tmp/s.png AM.png]" with neither the path nor its repair on
\* the file system
C21_Witness ==
    /\ handling.done
    /\ handling.aiResponse = <<Open, "/tmp/s.png", Sp, "AM.png", Close>>
    /\ handling.existing = {}
    /\ handling.replyText =
          <<NotFoundPrefix, "/tmp/s.png", Sp, "AM.png", BlankLine>>

\* s is a piece of t
IsSpanOf(s, t) ==
    \E a \in 1..Len(t) : \E b \in a..Len(t) : SubSeq(t, a, b) = s

\* C22: without a directive the path comes from the legacy patterns, an
\* absolute path with a recognised extension found in the raw response, and
\* the cleaned text is the raw response; with a directive the legacy
\* patterns are not used, whether or not the directive's file exists.
C22_HeuristicOnlyWithoutDirective ==
    handling.done =>
       /\ handling.viaHeuristic =>
             /\ ~hasDirective(handling.aiResponse)
             /\ handling.cleanResponse = handling.aiResponse
             /\ handling.mediaPath # <<>> =>
                   /\ IsSpanOf(handling.mediaPath, handling.aiResponse)
                   /\ Head(handling.mediaPath) \in {"/tmp/s.png", "/Users/r.pdf"}
                   /\ handling.mediaPath[Len(handling.mediaPath)]
                         \in {"/tmp/s.png", "/Users/r.pdf", "AM.png"}
                   /\ handling.mediaPath \in handling.existing
                   /\ handling.caption = handling.aiResponse
       /\ hasDirective(handling.aiResponse) =>
             /\ ~handling.viaHeuristic
             /\ handling.mediaPath
                   \in {<<>>, DirectivePath, Repaired(DirectivePath)}
       /\ (~hasDirective(handling.aiResponse)
             /\ imagePathMatch(handling.aiResponse) # <<>>) =>
             handling.viaHeuristic

\* "saved /tmp/s.png" with the file on the file system: the file is sent
\* with the whole response as caption
C22_Witness ==
    /\ handling.done
    /\ handling.aiResponse = <<"saved", Sp, "/tmp/s.png">>
    /\ handling.viaHeuristic
    /\ handling.mediaPath = <<"/tmp/s.png">>
    /\ handling.caption = handling.aiResponse
    /\ handling.fileSent

\* C38: when the response holds a directive, the text replied holds none.
C38_ReplyTextHasNoDirective ==
    (handling.done /\ hasDirective(handling.aiResponse)) =>
       ~hasDirective(handling.replyText)

\* the response is the directive alone, its file exists, the media send
\* failed and the response was replied as it came
DirectiveAloneReplied ==
    /\ handling.done
    /\ handling.aiResponse = <<Open, "/tmp/s.png", Close>>
    /\ ~handling.fileSent
    /\ handling.replyText = handling.aiResponse

====
